---- MODULE Spec2Model ----
(***************************************************************************)
(* Model of app.py: the content-based movie recommender.                   *)
(*                                                                         *)
(*   - load_data / safe_pickle_load : the two pickles read at start-up     *)
(*   - get_recommended_movie_indices: the similarity ranking               *)
(*   - fetch_poster                 : the poster fetch behind              *)
(*                                    st.cache_data(ttl=3600) and the      *)
(*                                    session poster_cache                 *)
(*   - the script body              : selection, "More", materialization   *)
(*                                                                         *)
(* Rows of the movie table and of the similarity matrix are 0-based, as in *)
(* the source; Python lists are 1-based TLA+ sequences of 0-based row      *)
(* numbers.  Python's None is the string "None".                           *)
(***************************************************************************)
EXTENDS Integers, Sequences, FiniteSets, TLC

VARIABLES
    files,           \* movies.pkl and similarity.pkl on disk, and poster_cache.json
    appStatus,       \* "startup" | "running" | "stopped" (st.stop() at start-up)
    movies_df,       \* the loaded table: [0..n-1 -> [movie_id, title]]
    similarity,      \* the loaded matrix: [0..N-1 -> [0..N-1 -> score]]
    selected_movie,  \* value of the selectbox in the last script run
    current_movie,   \* st.session_state.current_movie
    movie_indices,   \* st.session_state.movie_indices
    movies_to_show,  \* st.session_state.movies_to_show
    cached_names,    \* st.session_state.cached_names
    cached_posters,  \* st.session_state.cached_posters
    view,            \* what the last script run rendered
    run,             \* the last script run: its event, what it started from, and
                     \* the "More" requests accepted since the movie was selected
    poster_cache,    \* st.session_state.poster_cache: str(movie_id) -> url
    st_cache,        \* the st.cache_data memo of fetch_poster: movie_id -> entry
    now,             \* the clock, in seconds
    catalog,         \* what the catalog API answers during the session
    call,            \* the last call of fetch_poster made by FetchPosterCall
    netLog,          \* movie_id -> when FetchPosterCall last called and requested it
    wire,            \* the GET of API_SESSION a call of fetch_poster is in, attempt by attempt
    rk,              \* the last direct call of get_recommended_movie_indices
    batch            \* the last direct call of fetch_recommendations_batch

dataVars    == <<files, appStatus, movies_df, similarity, catalog>>
sessionVars == <<selected_movie, current_movie, movie_indices, movies_to_show,
                 cached_names, cached_posters, view, run>>
posterVars  == <<poster_cache, st_cache, call, netLog, wire>>
vars        == <<files, appStatus, movies_df, similarity, selected_movie,
                 current_movie, movie_indices, movies_to_show, cached_names,
                 cached_posters, view, run, poster_cache, st_cache, now, catalog, call,
                 netLog, wire, rk, batch>>

None == "None"

(***************************************************************************)
(* Bounds of the model.                                                    *)
(***************************************************************************)
MaxRankRows == 4     \* rows of table and matrix when the ranking is checked
MaxScore    == 2     \* similarity scores are 0..MaxScore
MaxExtra    == 2     \* the session's tables have up to 2 * BatchSize + MaxExtra rows
MaxPicks    == 2     \* the user picks among the first MaxPicks rows and the last
MaxTicks    == 3     \* the clock stops after MaxTicks quanta
MaxStart    == 2     \* start_idx of a direct call of fetch_recommendations_batch
MaxBatch    == 11    \* batch_size of a direct call of fetch_recommendations_batch
Quantum     == 1800  \* seconds the clock advances per tick

(***************************************************************************)
(* Program constants.                                                      *)
(***************************************************************************)
BatchSize == 5       \* movies_to_show start and increment, default batch_size
TTL       == 3600    \* st.cache_data(ttl=3600)

Scores == 0..MaxScore

Min(a, b) == IF a < b THEN a ELSE b

(***************************************************************************)
(* The movie table.                                                        *)
(***************************************************************************)
TitleNames == <<"A", "B", "C", "D", "E", "F", "G", "H", "I", "J", "K", "L", "M", "N", "O", "P">>

\* movie ids of the table rows: distinct integers of one and of two digits
MovieIdOf(i) == 7 + 3 * i

\* A pickled table: the rows in order, under whatever index labels the frame
\* was saved with.
PickledTable(labels, titles) ==
    [index |-> labels,
     rows  |-> [k \in 1..Len(titles) |->
                   [movie_id |-> MovieIdOf(k - 1), title |-> titles[k]]]]

\* movies_df.reset_index(drop=True): the same rows, relabelled 0..n-1.
reset_index(frame) ==
    [i \in 0..(Len(frame.rows) - 1) |-> frame.rows[i + 1]]

len_df(df) == Cardinality(DOMAIN df)

(***************************************************************************)
(* get_recommended_movie_indices                                           *)
(***************************************************************************)
\* list(enumerate(distances)): <<j, distances[j]>> for j = 0..len-1
enumerate(distances) ==
    [k \in 1..Cardinality(DOMAIN distances) |-> <<k - 1, distances[k - 1]>>]

\* The insertion step of an unstable sort: x goes before the elements whose
\* key equals its own, so equal keys come out in descending row order.
RECURSIVE InsertDescTiesFirst(_, _)
InsertDescTiesFirst(x, s) ==
    IF s = <<>> THEN <<x>>
    ELSE IF Head(s)[2] > x[2] THEN <<Head(s)>> \o InsertDescTiesFirst(x, Tail(s))
    ELSE <<x>> \o s

\* One insertion step of a stable descending sort on x[1] (the lambda of the
\* source; 0-based x[1] is the pair's second component): x goes after every
\* element whose key is greater than or equal to its own.
RECURSIVE InsertDesc(_, _)
InsertDesc(x, s) ==
    IF s = <<>> THEN <<x>>
    ELSE IF Head(s)[2] >= x[2] THEN <<Head(s)>> \o InsertDesc(x, Tail(s))
    ELSE <<x>> \o s

\* sorted(pairs, reverse=True, key=lambda x: x[1]): Python's sort is stable
\* and reverse=True keeps the original order of equal keys.
RECURSIVE sorted_reverse(_)
sorted_reverse(pairs) ==
    IF pairs = <<>> THEN <<>>
    ELSE InsertDesc(pairs[Len(pairs)],
                    sorted_reverse(SubSeq(pairs, 1, Len(pairs) - 1)))

\* movies_df[movies_df["title"] == movie].index: the matching rows, ascending
MatchingRows(df, movie) == {i \in DOMAIN df : df[i].title = movie}

SetMin(S) == CHOOSE x \in S : \A y \in S : x <= y

\* A lookup that falls back on row 0 when no row carries the title.
get_recommended_movie_indices_first_row(df, sim, movie) ==
    LET movie_index == IF MatchingRows(df, movie) = {} THEN 0
                       ELSE SetMin(MatchingRows(df, movie))
    IN  IF movie_index >= Cardinality(DOMAIN sim)
        THEN [indices |-> <<>>, error |-> "data_mismatch"]
        ELSE LET distances  == sim[movie_index]
                 movie_list == Tail(sorted_reverse(enumerate(distances)))
             IN  [indices |-> [k \in 1..Len(movie_list) |-> movie_list[k][1]],
                  error   |-> None]

\* The result: the list returned and the st.error shown, if any.
get_recommended_movie_indices(df, sim, movie) ==
    IF MatchingRows(df, movie) = {}
    THEN [indices |-> <<>>, error |-> "not_found"]
    ELSE LET movie_index == SetMin(MatchingRows(df, movie))
         IN  IF movie_index >= Cardinality(DOMAIN sim)
             THEN [indices |-> <<>>, error |-> "data_mismatch"]
             ELSE LET distances  == sim[movie_index]
                      movie_list == Tail(sorted_reverse(enumerate(distances)))
                  IN  [indices |-> [k \in 1..Len(movie_list) |-> movie_list[k][1]],
                       error   |-> None]

(***************************************************************************)
(* fetch_poster                                                            *)
(***************************************************************************)
\* str(movie_id): the decimal digits of a non-negative integer
RECURSIVE str(_)
str(n) == IF n < 10 THEN <<n>> ELSE str(n \div 10) \o <<n % 10>>

\* "https://image.tmdb.org/t/p/w500" + data["poster_path"], for the poster
\* paths the modelled catalog returns
PosterUrl(poster_path) ==
    CASE poster_path = "/a.jpg" -> "https://image.tmdb.org/t/p/w500/a.jpg"
      [] poster_path = "/b.jpg" -> "https://image.tmdb.org/t/p/w500/b.jpg"

\* What API_SESSION.get(url, timeout=15) can come back with.  body is what
\* response.json() holds: "no_key" for a record without poster_path, "null"
\* for poster_path: null, otherwise the poster_path string ("" included).
PosterPaths == {"/a.jpg", "/b.jpg"}
Responses ==
    [kind : {"ok"}, body : PosterPaths \cup {"", "null", "no_key"}]
    \cup [kind : {"timeout", "connection_error", "retry_exhausted",
                  "http_error", "bad_json"}, body : {"none"}]

\* lines 90-102, the body of the try: the exception raised, if any, else the
\* value returned and whether line 100 stored it in the session cache.
try_body(response) ==
    IF response.kind \in {"timeout", "connection_error", "retry_exhausted"}
    THEN [exc |-> "RequestException", value |-> None, store |-> FALSE]  \* get
    ELSE IF response.kind = "http_error"
    THEN [exc |-> "HTTPError", value |-> None, store |-> FALSE]  \* raise_for_status
    ELSE IF response.kind = "bad_json"
    THEN [exc |-> "ValueError", value |-> None, store |-> FALSE]  \* response.json
    ELSE IF response.body \in {"no_key", "null", ""}
    THEN [exc |-> None, value |-> None, store |-> FALSE]          \* line 94-95
    ELSE [exc |-> None, value |-> PosterUrl(response.body), store |-> TRUE]

\* A handler that catches only the exceptions of the requests library.
except_RequestException(t) ==
    IF t.exc \in {"RequestException", "HTTPError"}
    THEN [raised |-> FALSE, value |-> None, store |-> FALSE]
    ELSE [raised |-> t.exc # None, value |-> t.value, store |-> t.store]

\* lines 104-105, except Exception: return None
except_Exception(t) ==
    IF t.exc # None
    THEN [raised |-> FALSE, value |-> None, store |-> FALSE]
    ELSE [raised |-> FALSE, value |-> t.value, store |-> t.store]

\* lines 81-105, the undecorated function: its result, whether it made an
\* outbound request, and the session poster_cache it leaves.
fetch_poster_body(movie_id, response, pc) ==
    LET key == str(movie_id)
    IN  IF key \in DOMAIN pc
        THEN [result |-> pc[key], raised |-> FALSE, net |-> FALSE, poster_cache |-> pc]
        ELSE LET r == except_Exception(try_body(response))
             IN  [result |-> r.value, raised |-> r.raised, net |-> TRUE,
                  poster_cache |-> IF r.store THEN (key :> r.value) @@ pc ELSE pc]

\* st.cache_data(ttl=3600): an entry is served while it is younger than ttl.
st_cache_hit(memo, movie_id, t) ==
    movie_id \in DOMAIN memo /\ t - memo[movie_id].at < TTL

\* A memo that keeps only the values that are not None.
st_cache_put_not_none(memo, movie_id, value, t) ==
    IF value = None THEN memo
    ELSE (movie_id :> [value |-> value, at |-> t]) @@ memo

\* st.cache_data stores whatever the function returned, None included.
st_cache_put(memo, movie_id, value, t) ==
    (movie_id :> [value |-> value, at |-> t]) @@ memo

\* line 78-79, the decorated function as its callers see it, at time t.
fetch_poster(movie_id, response, pc, memo, t) ==
    IF st_cache_hit(memo, movie_id, t)
    THEN [result |-> memo[movie_id].value, raised |-> FALSE, net |-> FALSE,
          poster_cache |-> pc, st_cache |-> memo]
    ELSE LET b == fetch_poster_body(movie_id, response, pc)
         IN  [result |-> b.result, raised |-> b.raised, net |-> b.net,
              poster_cache |-> b.poster_cache,
              st_cache |-> IF b.raised THEN memo
                           ELSE st_cache_put(memo, movie_id, b.result, t)]

\* lines 41-50: the session cache starts as poster_cache.json holds it, or
\* empty when the file is missing or does not load.
initial_poster_cache(file) ==
    IF file.status = "ok" THEN file.content ELSE [k \in {} |-> None]

\* The record kept of a call of fetch_poster: what it did, and how long
\* before it the same movie_id was last called and last requested.
NeverYet == 0 - 1
LogOf(log, movie_id) ==
    IF movie_id \in DOMAIN log THEN log[movie_id]
    ELSE [lastCall |-> NeverYet, lastNet |-> NeverYet, lastResult |-> None,
          lastResponse |-> "none"]

CallRecord(movie_id, response, r, log, t) ==
    LET e == LogOf(log, movie_id)
    IN  [made |-> TRUE, movie_id |-> movie_id, at |-> t, net |-> r.net,
         response |-> IF r.net THEN response ELSE [kind |-> "none", body |-> "none"],
         result |-> r.result, raised |-> r.raised,
         sinceCall |-> IF e.lastCall = NeverYet THEN NeverYet ELSE t - e.lastCall,
         sinceNet |-> IF e.lastNet = NeverYet THEN NeverYet ELSE t - e.lastNet,
         prevResult |-> e.lastResult,
         prevResponse |-> e.lastResponse]

LogCall(movie_id, response, r, log, t) ==
    LET e == LogOf(log, movie_id)
    IN  (movie_id :> [lastCall |-> t,
                      lastNet |-> IF r.net THEN t ELSE e.lastNet,
                      lastResult |-> r.result,
                      lastResponse |-> IF r.net THEN response.kind ELSE e.lastResponse])
        @@ log

(***************************************************************************)
(* create_session: the retries of the transport                            *)
(***************************************************************************)
RetryTotal == 3      \* Retry(total=3): the retries allowed after the first attempt
status_forcelist == {429, 500, 502, 503, 504}
allowed_methods  == {"GET"}

\* Retry's defaults, which create_session leaves as they are: a response of
\* one of these statuses that carries a Retry-After header is retried too.
respect_retry_after_header == TRUE
RetryAfterStatus == {413, 429, 503}

\* What one GET attempt can end in: a response with a status (for 200 the
\* poster_path of its body; for 404 and 413 with a Retry-After header or
\* without), or a failure to connect or to read in time.
AttemptOutcomes ==
    [err : {"none"}, status : {200}, body : {"/a.jpg", "no_key"}, retry_after : {FALSE}]
    \cup [err : {"none"}, status : status_forcelist, body : {"none"}, retry_after : {FALSE}]
    \cup [err : {"none"}, status : {404, 413}, body : {"none"}, retry_after : BOOLEAN]
    \cup [err : {"connect_error", "read_timeout"}, status : {0}, body : {"none"},
          retry_after : {FALSE}]

\* A policy that asks for another attempt after every error status.
is_retry_any_error(method, status, has_retry_after, total) ==
    method \in allowed_methods /\ status >= 400

\* Retry.is_retry: a response is retried for its status when the method is
\* allowed and the status is in the forcelist, or, while `total` is not 0,
\* when it carries Retry-After and its status is one that header goes with.
is_retry(method, status, has_retry_after, total) ==
    /\ method \in allowed_methods
    /\ \/ status \in status_forcelist
       \/ /\ total # 0 /\ respect_retry_after_header /\ has_retry_after
          /\ status \in RetryAfterStatus

\* A failed connection or read is retried whatever the forcelist says (the
\* read only for an allowed method); a response when is_retry says so.
retried(method, outcome, total) ==
    IF outcome.err = "connect_error" THEN TRUE
    ELSE IF outcome.err = "read_timeout" THEN method \in allowed_methods
    ELSE is_retry(method, outcome.status, outcome.retry_after, total)

\* Retry.increment and Retry.is_exhausted on the `total` counter
increment(total) == total - 1
is_exhausted(total) == total < 0

\* What API_SESSION.get comes back with when `outcome` ends the attempts.
final_response(outcome) ==
    IF outcome.err = "connect_error" THEN [kind |-> "connection_error", body |-> "none"]
    ELSE IF outcome.err = "read_timeout" THEN [kind |-> "timeout", body |-> "none"]
    ELSE IF outcome.status \in status_forcelist
    THEN [kind |-> "retry_exhausted", body |-> "none"]
    ELSE IF outcome.status = 200 THEN [kind |-> "ok", body |-> outcome.body]
    ELSE [kind |-> "http_error", body |-> "none"]

NoWire == [busy |-> FALSE, done |-> FALSE, movie_id |-> 0, total |-> RetryTotal,
           attempts |-> 0, history |-> <<>>, result |-> None, raised |-> FALSE]

(***************************************************************************)
(* load_data                                                               *)
(***************************************************************************)
\* A file on disk: "ok" unpickles at once, "latin1" only with
\* encoding="latin1", "corrupt" with neither, "missing" does not exist.
FileStatus == {"ok", "latin1", "corrupt", "missing"}

File(status, content) == [status |-> status, content |-> content]

\* safe_pickle_load: the object, or st.stop() after an st.error.
safe_pickle_load(file) ==
    IF file.status = "missing" THEN [stopped |-> TRUE, error |-> "file_not_found"]
    ELSE IF file.status = "ok" THEN [stopped |-> FALSE, value |-> file.content]
    ELSE IF file.status = "latin1" THEN [stopped |-> FALSE, value |-> file.content]
    ELSE [stopped |-> TRUE, error |-> "failed_to_load"]

\* load_data: both pickles, the table re-indexed; nothing compares the two.
load_data(fs) ==
    LET m == safe_pickle_load(fs.movies)
        s == safe_pickle_load(fs.similarity)
    IN  IF m.stopped THEN [stopped |-> TRUE, error |-> m.error]
        ELSE IF s.stopped THEN [stopped |-> TRUE, error |-> s.error]
        ELSE [stopped    |-> FALSE,
              movies_df  |-> reset_index(m.value),
              similarity |-> s.value]

(***************************************************************************)
(* fetch_recommendations_batch                                             *)
(***************************************************************************)
PauseEvery == 5      \* line 181: a pause after every fifth fetch of a batch

\* The loop of lines 171-182 from position i on (positions are 0-based, as
\* in the source); responses[id] is what the transport answers to a request
\* for movie id.  movies_df.iloc[idx] raises IndexError for a row the
\* table does not have, and the loop ends there with nothing returned.
\* An iteration that leaves out the movies whose poster was not found.
batch_append_omits_absent(title, r, pause, acc) ==
    [acc EXCEPT
       !.names = IF r.raised \/ r.result = None THEN @ ELSE Append(@, title),
       !.posters = IF r.raised \/ r.result = None THEN @ ELSE Append(@, r.result),
       !.poster_cache = r.poster_cache,
       !.st_cache = r.st_cache,
       !.fetches = @ + 1,
       !.pauses = IF pause /\ ~r.raised THEN Append(@, acc.fetches + 1) ELSE @,
       !.raised = IF r.raised THEN "Exception" ELSE None]

\* lines 178-182 of one iteration: the title and the poster r just fetched
\* are appended, and the pause is taken when due; pauses lists the fetches
\* of this call (the first is 1) that a pause followed
batch_append(title, r, pause, acc) ==
    [acc EXCEPT
       !.names = IF r.raised THEN @ ELSE Append(@, title),
       !.posters = IF r.raised THEN @ ELSE Append(@, r.result),
       !.poster_cache = r.poster_cache,
       !.st_cache = r.st_cache,
       !.fetches = @ + 1,
       !.pauses = IF pause /\ ~r.raised THEN Append(@, acc.fetches + 1) ELSE @,
       !.raised = IF r.raised THEN "Exception" ELSE None]

\* An iteration that pauses after every fifth fetch, the last included.
batch_step_pauses_at_end(i, start_idx, end_idx, indices, responses, acc) ==
    IF indices[i + 1] \notin DOMAIN acc.df
    THEN [acc EXCEPT !.raised = "IndexError"]
    ELSE batch_append(
            acc.df[indices[i + 1]].title,
            fetch_poster(acc.df[indices[i + 1]].movie_id,
                         responses[acc.df[indices[i + 1]].movie_id],
                         acc.poster_cache, acc.st_cache, acc.t),
            (i - start_idx + 1) % PauseEvery = 0,
            acc)

\* one iteration of the loop, lines 172-182, at position i
batch_step(i, start_idx, end_idx, indices, responses, acc) ==
    IF indices[i + 1] \notin DOMAIN acc.df
    THEN [acc EXCEPT !.raised = "IndexError"]
    ELSE batch_append(
            acc.df[indices[i + 1]].title,
            fetch_poster(acc.df[indices[i + 1]].movie_id,
                         responses[acc.df[indices[i + 1]].movie_id],
                         acc.poster_cache, acc.st_cache, acc.t),
            (i - start_idx + 1) % PauseEvery = 0 /\ i < end_idx - 1,
            acc)

RECURSIVE batch_loop(_, _, _, _, _, _)
batch_loop(i, start_idx, end_idx, indices, responses, acc) ==
    IF i >= end_idx \/ acc.raised # None THEN acc
    ELSE batch_loop(i + 1, start_idx, end_idx, indices, responses,
                    batch_step(i, start_idx, end_idx, indices, responses, acc))

fetch_recommendations_batch(df, indices, start_idx, batch_size, responses, pc, memo, t) ==
    LET end_idx == Min(start_idx + batch_size, Len(indices))
    IN  batch_loop(start_idx, start_idx, end_idx, indices, responses,
                   [df |-> df, t |-> t, start_idx |-> start_idx,
                    batch_size |-> batch_size, names |-> <<>>, posters |-> <<>>,
                    poster_cache |-> pc, st_cache |-> memo,
                    fetches |-> 0, pauses |-> <<>>, raised |-> None])

(***************************************************************************)
(* The script body, lines 202-295                                          *)
(***************************************************************************)
\* A callback that adds two batches at once.
increment_movies_twice(to_show) == to_show + 2 * BatchSize

\* increment_movies, the on_click callback of the "More" button
increment_movies(to_show) == to_show + BatchSize

\* A reset of the counter that leaves the materialized lists as they are.
reset_movie_count_keeps_lists ==
    [movies_to_show |-> BatchSize,
     cached_names |-> cached_names, cached_posters |-> cached_posters]

\* reset_movie_count
reset_movie_count == [movies_to_show |-> BatchSize,
                      cached_names |-> <<>>, cached_posters |-> <<>>]

\* A selection check that ranks the new movie and empties the lists but
\* leaves the counter where the pages of the previous movie took it.
after_selection_no_reset(sel, st) ==
    IF sel # None /\ sel # st.current_movie
    THEN [current_movie  |-> sel,
          movies_to_show |-> st.movies_to_show,
          cached_names   |-> reset_movie_count.cached_names,
          cached_posters |-> reset_movie_count.cached_posters,
          movie_indices  |->
              get_recommended_movie_indices(st.df, st.sim, sel).indices]
    ELSE [current_movie  |-> st.current_movie,
          movies_to_show |-> st.movies_to_show,
          cached_names   |-> st.cached_names,
          cached_posters |-> st.cached_posters,
          movie_indices  |-> st.movie_indices]

\* lines 229-233: the session state after the selection check
after_selection(sel, st) ==
    IF sel # None /\ sel # st.current_movie
    THEN [current_movie  |-> sel,
          movies_to_show |-> reset_movie_count.movies_to_show,
          cached_names   |-> reset_movie_count.cached_names,
          cached_posters |-> reset_movie_count.cached_posters,
          movie_indices  |->
              get_recommended_movie_indices(st.df, st.sim, sel).indices]
    ELSE [current_movie  |-> st.current_movie,
          movies_to_show |-> st.movies_to_show,
          cached_names   |-> st.cached_names,
          cached_posters |-> st.cached_posters,
          movie_indices  |-> st.movie_indices]

\* line 241
num_to_display(to_show, indices) == Min(to_show, Len(indices))

\* the run's outcome when it fetches nothing: the session state a, the
\* caches of st, and what is rendered
rendered(a, st, what) ==
    [current_movie |-> a.current_movie, movie_indices |-> a.movie_indices,
     movies_to_show |-> a.movies_to_show,
     cached_names |-> a.cached_names, cached_posters |-> a.cached_posters,
     poster_cache |-> st.poster_cache, st_cache |-> st.st_cache,
     view |-> what, fetches |-> 0, start_idx |-> 0, batch_size |-> 0]

\* The lists assigned the new batch instead of extended by it.
extended_replaces(a, b, cached, what) ==
    [current_movie |-> a.current_movie, movie_indices |-> a.movie_indices,
     movies_to_show |-> a.movies_to_show,
     cached_names |-> IF b.raised # None THEN a.cached_names ELSE b.names,
     cached_posters |-> IF b.raised # None THEN a.cached_posters ELSE b.posters,
     poster_cache |-> b.poster_cache, st_cache |-> b.st_cache,
     view |-> IF b.raised # None THEN "exception" ELSE what,
     fetches |-> b.fetches, start_idx |-> b.start_idx, batch_size |-> b.batch_size]

\* lines 252-253 and what follows them: the batch b extends the lists; an
\* exception raised inside the batch ends the run before anything is stored
\* or rendered
extended(a, b, cached, what) ==
    [current_movie |-> a.current_movie, movie_indices |-> a.movie_indices,
     movies_to_show |-> a.movies_to_show,
     cached_names |-> IF b.raised # None THEN a.cached_names
                      ELSE a.cached_names \o b.names,
     cached_posters |-> IF b.raised # None THEN a.cached_posters
                        ELSE a.cached_posters \o b.posters,
     poster_cache |-> b.poster_cache, st_cache |-> b.st_cache,
     view |-> IF b.raised # None THEN "exception" ELSE what,
     fetches |-> b.fetches, start_idx |-> b.start_idx, batch_size |-> b.batch_size]

\* lines 282-293: the "More" button, or the notice that all is displayed
button_or_notice(shown, indices) ==
    IF shown < Len(indices) THEN "results_more" ELSE "results_complete"

\* lines 241-293, for a non-empty list: shown is num_to_display and cached is
\* num_already_cached
results(a, st, responses, shown, cached) ==
    IF shown > cached
    THEN extended(a,
                  fetch_recommendations_batch(st.df, a.movie_indices, cached,
                      shown - cached, responses, st.poster_cache, st.st_cache, st.t),
                  cached,
                  button_or_notice(shown, a.movie_indices))
    ELSE rendered(a, st, button_or_notice(shown, a.movie_indices))

\* lines 235-295 from the session state a that lines 229-233 left
render(sel, a, st, responses) ==
    IF sel = None THEN rendered(a, st, "welcome")
    ELSE IF a.movie_indices = <<>> THEN rendered(a, st, "no_results")
    ELSE results(a, st, responses,
                 num_to_display(a.movies_to_show, a.movie_indices),
                 Len(a.cached_names))

\* lines 229-295: one run of the script with the selectbox at sel.  st is the
\* session state the run starts from (after the callback, if one ran).
script_run(sel, st, responses) ==
    render(sel, after_selection(sel, st), st, responses)

(***************************************************************************)
(* Input families                                                          *)
(***************************************************************************)
\* index labels a frame may have been pickled with
ContiguousLabels(n) == [k \in 1..n |-> k - 1]
GappedLabels(n)     == [k \in 1..n |-> 2 * k + 1]

\* The matrix whose row i is the row d rotated right by i places: as d ranges
\* over all rows, every row of the matrix ranges over all rows.
RotatedMatrix(N, d) ==
    [i \in 0..(N - 1) |-> [j \in 0..(N - 1) |-> d[(j - i) % N]]]

NoRun == [event |-> "none", changed |-> FALSE, prev_movie |-> None,
          prev_shown |-> 0, start_idx |-> 0, batch_size |-> 0, fetches |-> 0,
          mores |-> 0]

\* No pagination yet: the session state of lines 187-200, nothing rendered.
SessionInit ==
    /\ selected_movie = None
    /\ current_movie = None
    /\ movie_indices = <<>>
    /\ movies_to_show = BatchSize
    /\ cached_names = <<>>
    /\ cached_posters = <<>>
    /\ view = "welcome"
    /\ run = NoRun

NoCall == [made |-> FALSE, movie_id |-> 0, at |-> 0, net |-> FALSE,
           response |-> [kind |-> "none", body |-> "none"],
           result |-> None, raised |-> FALSE,
           sinceCall |-> NeverYet, sinceNet |-> NeverYet,
           prevResult |-> None, prevResponse |-> "none"]

PosterInit ==
    /\ poster_cache = initial_poster_cache(files.poster_cache_json)
    /\ st_cache = [k \in {} |-> None]
    /\ now = 0
    /\ call = NoCall
    /\ netLog = [k \in {} |-> None]
    /\ wire = NoWire

\* The catalogs of a session: every movie has a poster; or, by movie id, a
\* poster, a record without poster_path, or a request that times out.
Catalogs == {"found", "mixed"}
CatalogResponse(cat, movie_id) ==
    IF cat = "found" THEN [kind |-> "ok", body |-> "/a.jpg"]
    ELSE CASE (movie_id \div 3) % 3 = 0 -> [kind |-> "timeout", body |-> "none"]
           [] (movie_id \div 3) % 3 = 1 -> [kind |-> "ok", body |-> "no_key"]
           [] (movie_id \div 3) % 3 = 2 -> [kind |-> "ok", body |-> "/b.jpg"]

NoRank == [called |-> FALSE, movie |-> None, indices |-> <<>>, error |-> None]

NoBatch == [called |-> FALSE, start_idx |-> 0, batch_size |-> 0, len |-> 0,
            fetches |-> 0, pauses |-> <<>>, returned |-> 0, raised |-> None]

(***************************************************************************)
(* The ranking on its own: every table of up to MaxRankRows rows with      *)
(* titles "A"/"B", every matrix dimension up to MaxRankRows, every row of  *)
(* scores; the action calls get_recommended_movie_indices with a title.    *)
(***************************************************************************)
RankTitles  == {"A", "B"}
QueryTitles == RankTitles \cup {"Z"}

InitRank ==
    /\ \E n \in 1..MaxRankRows, N \in 1..MaxRankRows :
         \E titles \in [1..n -> RankTitles], d \in [0..(N - 1) -> Scores] :
           \E labels \in {ContiguousLabels(n), GappedLabels(n)} :
             /\ files = [movies     |-> File("ok", PickledTable(labels, titles)),
                         similarity |-> File("ok", RotatedMatrix(N, d)),
                         poster_cache_json |-> File("missing", None)]
             /\ movies_df = load_data(files).movies_df
             /\ similarity = load_data(files).similarity
    /\ appStatus = "running"
    /\ SessionInit
    /\ PosterInit
    /\ catalog = "found"
    /\ rk = NoRank
    /\ batch = NoBatch

RankCall ==
    /\ appStatus = "running"
    /\ \E movie \in QueryTitles :
         LET r == get_recommended_movie_indices(movies_df, similarity, movie)
         IN  rk' = [called |-> TRUE, movie |-> movie,
                    indices |-> r.indices, error |-> r.error]
    /\ UNCHANGED <<dataVars, sessionVars, posterVars, now, batch>>

NextRank == RankCall

SpecRank == InitRank /\ [][NextRank]_vars

(***************************************************************************)
(* Claims about the ranking (checked under SpecRank)                       *)
(***************************************************************************)
\* the row the last ranked title resolved to, and its similarity row
QueryRow == SetMin(MatchingRows(movies_df, rk.movie))
ScoreOf(j) == similarity[QueryRow][j]
Ranked == rk.called /\ rk.error = None
Occurrences(seq, x) == Cardinality({k \in 1..Len(seq) : seq[k] = x})

\* C1: for a table of n rows with an n x n matrix and a valid query row q, the
\* ranking has length n-1, does not contain q and contains every other row
\* exactly once, whatever the scores of row q are.
C1_RankIsTheOtherRows ==
    (Ranked /\ len_df(movies_df) = Cardinality(DOMAIN similarity)) =>
        /\ Len(rk.indices) = len_df(movies_df) - 1
        /\ Occurrences(rk.indices, QueryRow) = 0
        /\ \A j \in (DOMAIN movies_df) \ {QueryRow} : Occurrences(rk.indices, j) = 1

\* C2: the ranking is ordered by non-increasing score, and indices of equal
\* score are in ascending row order; the row <<2, 1, 0>> of row 0 (the scores
\* 1.0, 0.9, 0.2 of the example, as ranks) yields <<1, 2>>.
C2_RankSortedStable ==
    Ranked =>
        /\ \A k, l \in 1..Len(rk.indices) :
              k < l => \/ ScoreOf(rk.indices[k]) > ScoreOf(rk.indices[l])
                       \/ /\ ScoreOf(rk.indices[k]) = ScoreOf(rk.indices[l])
                          /\ rk.indices[k] < rk.indices[l]
        /\ (QueryRow = 0 /\ similarity[0] = (0 :> 2 @@ 1 :> 1 @@ 2 :> 0))
              => rk.indices = <<1, 2>>

\* C2 witness: a ranking of three indices, two of them of equal score and one
\* of a different score.
C2_Witness ==
    /\ Ranked
    /\ Len(rk.indices) = 3
    /\ ScoreOf(rk.indices[1]) > ScoreOf(rk.indices[2])
    /\ ScoreOf(rk.indices[2]) = ScoreOf(rk.indices[3])

(***************************************************************************)
(* fetch_poster on its own: any movie id of the table, any response of the *)
(* transport, and a clock that advances between the calls.                 *)
(***************************************************************************)
PosterIds == {MovieIdOf(0), MovieIdOf(1)}

\* what poster_cache.json may hold when the session starts
PosterCacheFiles ==
    {File("missing", None), File("corrupt", None),
     File("ok", (str(MovieIdOf(0)) :> PosterUrl("/a.jpg")))}

InitPoster ==
    /\ \E f \in PosterCacheFiles :
         files = [movies     |-> File("ok", PickledTable(ContiguousLabels(2), <<"A", "B">>)),
                  similarity |-> File("ok", RotatedMatrix(2, (0 :> 1 @@ 1 :> 0))),
                  poster_cache_json |-> f]
    /\ movies_df = load_data(files).movies_df
    /\ similarity = load_data(files).similarity
    /\ appStatus = "running"
    /\ SessionInit
    /\ PosterInit
    /\ catalog = "found"
    /\ rk = NoRank
    /\ batch = NoBatch

FetchPosterCall ==
    /\ appStatus = "running"
    /\ \E movie_id \in PosterIds, response \in Responses :
         LET r == fetch_poster(movie_id, response, poster_cache, st_cache, now)
         IN  /\ poster_cache' = r.poster_cache
             /\ st_cache' = r.st_cache
             /\ call' = CallRecord(movie_id, response, r, netLog, now)
             /\ netLog' = LogCall(movie_id, response, r, netLog, now)
    /\ UNCHANGED <<dataVars, sessionVars, now, wire, rk, batch>>

Tick ==
    /\ now < MaxTicks * Quantum
    /\ now' = now + Quantum
    /\ UNCHANGED <<dataVars, sessionVars, posterVars, rk, batch>>

NextPoster == FetchPosterCall \/ Tick

SpecPoster == InitPoster /\ [][NextPoster]_vars

(***************************************************************************)
(* Claims about fetch_poster (checked under SpecPoster)                    *)
(***************************************************************************)
RequestFailed(kind) ==
    kind \in {"timeout", "connection_error", "retry_exhausted", "http_error", "bad_json"}

\* C3: a call of fetch_poster(id) made less than TTL after a call that issued
\* the outbound request for id issues no request and returns what that call
\* returned, a URL or None alike: the two calls make one request in total.
C3_OneRequestWithinTTL ==
    (call.made /\ call.sinceNet # NeverYet /\ call.sinceNet < TTL) =>
        /\ ~call.net
        /\ ~call.raised
        /\ call.result = call.prevResult

\* C3 witness: the second of two calls less than TTL (and more than no time)
\* apart, the first of which ended in a failed request and returned None.
C3_Witness ==
    /\ call.made /\ ~call.net
    /\ call.sinceCall = call.sinceNet
    /\ call.sinceNet > 0 /\ call.sinceNet < TTL
    /\ RequestFailed(call.prevResponse)
    /\ call.result = None

\* C4: a call of fetch_poster(id) made more than TTL after the previous call
\* for id issues a new outbound request, whatever the earlier result was.
C4_RefetchAfterTTL ==
    (call.made /\ call.sinceCall # NeverYet /\ call.sinceCall > TTL) => call.net

\* C5: fetch_poster never raises; a call that made a request returns the
\* poster URL when the response carried a non-empty poster_path and None for
\* every other response.
C5_NeverRaises ==
    call.made =>
        /\ ~call.raised
        /\ call.net =>
              IF call.response.kind = "ok" /\ call.response.body \in PosterPaths
              THEN call.result = PosterUrl(call.response.body)
              ELSE call.result = None

\* C5 witness: a call whose response was not JSON returned None.
C5_Witness ==
    /\ call.made /\ call.net
    /\ call.response.kind = "bad_json"
    /\ call.result = None /\ ~call.raised

(***************************************************************************)
(* fetch_poster with its GET followed attempt by attempt: a call that      *)
(* misses both caches enters API_SESSION.get, every attempt ends in one of *)
(* AttemptOutcomes, and the attempt that ends the GET ends the call.       *)
(***************************************************************************)
InitRetry ==
    /\ \E f \in PosterCacheFiles :
         files = [movies     |-> File("ok", PickledTable(ContiguousLabels(2), <<"A", "B">>)),
                  similarity |-> File("ok", RotatedMatrix(2, (0 :> 1 @@ 1 :> 0))),
                  poster_cache_json |-> f]
    /\ movies_df = load_data(files).movies_df
    /\ similarity = load_data(files).similarity
    /\ appStatus = "running"
    /\ SessionInit
    /\ PosterInit
    /\ catalog = "found"
    /\ rk = NoRank
    /\ batch = NoBatch

\* the call as it ends with result r after the attempts of `history`
WireDone(movie_id, history, r) ==
    /\ wire' = [busy |-> FALSE, done |-> TRUE, movie_id |-> movie_id,
                total |-> RetryTotal - Len(history) + 1,
                attempts |-> Len(history), history |-> history,
                result |-> r.result, raised |-> r.raised]
    /\ poster_cache' = r.poster_cache
    /\ st_cache' = r.st_cache

\* lines 78-88: fetch_poster(movie_id) is called; a call the memo or the
\* session cache serves returns at once, any other goes on to line 90.
CallFetchPoster ==
    /\ appStatus = "running"
    /\ ~wire.busy
    /\ \E movie_id \in PosterIds :
         IF st_cache_hit(st_cache, movie_id, now) \/ str(movie_id) \in DOMAIN poster_cache
         THEN WireDone(movie_id, <<>>,
                       fetch_poster(movie_id, [kind |-> "none", body |-> "none"],
                                    poster_cache, st_cache, now))
         ELSE /\ wire' = [NoWire EXCEPT !.busy = TRUE, !.movie_id = movie_id]
              /\ UNCHANGED <<poster_cache, st_cache>>
    /\ UNCHANGED <<dataVars, sessionVars, now, call, netLog, rk, batch>>

\* line 90: one attempt of the GET.  A retried outcome that leaves retries
\* is followed by another attempt; any other outcome ends the GET, and
\* lines 91-105 turn what it came back with into the result of the call.
Attempt ==
    /\ appStatus = "running"
    /\ wire.busy
    /\ \E outcome \in AttemptOutcomes :
         IF retried("GET", outcome, wire.total) /\ ~is_exhausted(increment(wire.total))
         THEN /\ wire' = [wire EXCEPT !.total = increment(@),
                                      !.attempts = @ + 1,
                                      !.history = Append(@, outcome)]
              /\ UNCHANGED <<poster_cache, st_cache>>
         ELSE WireDone(wire.movie_id, Append(wire.history, outcome),
                       fetch_poster(wire.movie_id, final_response(outcome),
                                    poster_cache, st_cache, now))
    /\ UNCHANGED <<dataVars, sessionVars, now, call, netLog, rk, batch>>

NextRetry == CallFetchPoster \/ Attempt \/ Tick

SpecRetry == InitRetry /\ [][NextRetry]_vars

(***************************************************************************)
(* The session: start-up, then the events of the page, each followed by    *)
(* one run of the script.  The clock stands still during a session, and    *)
(* the catalog answers the same for a movie id throughout.                 *)
(***************************************************************************)
MaxSessionRows == 2 * BatchSize + MaxExtra

\* the tables of the session: distinct titles, or the last row repeating the
\* title of row 0
SessionTitles(n) ==
    {[k \in 1..n |-> TitleNames[k]],
     [k \in 1..n |-> IF k = n THEN TitleNames[1] ELSE TitleNames[k]]}

\* the score rows of the session: own score strictly largest; all scores
\* equal; own score smallest
SessionRows(N) ==
    {[j \in 0..(N - 1) |-> IF j = 0 THEN 2 ELSE j % 2],
     [j \in 0..(N - 1) |-> 1],
     [j \in 0..(N - 1) |-> IF j = 0 THEN 0 ELSE 1 + (j % 2)]}

\* the matrix has as many rows as the table, one fewer or one more
SessionDims(n) == {N \in {n - 1, n, n + 1} : N >= 1}

SessionFiles ==
    UNION {UNION {
        {[movies     |-> File("ok", PickledTable(GappedLabels(n), titles)),
          similarity |-> File("ok", RotatedMatrix(N, d)),
          poster_cache_json |-> File("missing", None)] :
            titles \in SessionTitles(n), d \in SessionRows(N)} :
        N \in SessionDims(n)} : n \in 1..MaxSessionRows}

\* files of which one at least does not unpickle at once
UnreadableFiles ==
    {[movies     |-> File(ms, PickledTable(ContiguousLabels(2), <<"A", "B">>)),
      similarity |-> File(ss, RotatedMatrix(2, (0 :> 2 @@ 1 :> 1))),
      poster_cache_json |-> File("missing", None)] :
        ms \in FileStatus, ss \in FileStatus} 

EmptyTable == [k \in {} |-> None]

Init ==
    /\ files \in SessionFiles \cup UnreadableFiles
    /\ appStatus = "startup"
    /\ movies_df = EmptyTable
    /\ similarity = EmptyTable
    /\ SessionInit
    /\ PosterInit
    /\ catalog \in Catalogs
    /\ rk = NoRank
    /\ batch = NoBatch

\* lines 140-145 and the first run of the script: load_data, then the page
\* with nothing selected.
Startup ==
    /\ appStatus = "startup"
    /\ LET l == load_data(files)
       IN  IF l.stopped
           THEN /\ appStatus' = "stopped"
                /\ UNCHANGED <<movies_df, similarity>>
           ELSE /\ appStatus' = "running"
                /\ movies_df' = l.movies_df
                /\ similarity' = l.similarity
    /\ UNCHANGED <<files, catalog, sessionVars, posterVars, now, rk, batch>>

\* what the transport answers, by movie id, during a run of the script
TransportResponses ==
    [id \in {movies_df[i].movie_id : i \in DOMAIN movies_df} |->
        CatalogResponse(catalog, id)]

SessionState(to_show) ==
    [df |-> movies_df, sim |-> similarity, t |-> now,
     current_movie |-> current_movie, movie_indices |-> movie_indices,
     movies_to_show |-> to_show,
     cached_names |-> cached_names, cached_posters |-> cached_posters,
     poster_cache |-> poster_cache, st_cache |-> st_cache]

\* The session after a run of the script that ended as r.
AfterRun(event, sel, r) ==
    /\ selected_movie' = sel
    /\ current_movie' = r.current_movie
    /\ movie_indices' = r.movie_indices
    /\ movies_to_show' = r.movies_to_show
    /\ cached_names' = r.cached_names
    /\ cached_posters' = r.cached_posters
    /\ view' = r.view
    /\ poster_cache' = r.poster_cache
    /\ st_cache' = r.st_cache
    /\ run' = [event |-> event,
               changed |-> sel # None /\ sel # current_movie,
               prev_movie |-> current_movie,
               prev_shown |-> Len(cached_names),
               start_idx |-> r.start_idx, batch_size |-> r.batch_size,
               fetches |-> r.fetches,
               mores |-> IF sel # None /\ sel # current_movie THEN 0
                         ELSE IF event = "more" THEN run.mores + 1
                         ELSE run.mores]
    /\ UNCHANGED <<dataVars, now, call, netLog, wire, rk, batch>>

\* One run of the script after `event`, with the selectbox at sel and
\* movies_to_show at to_show.
Rerun(event, sel, to_show) ==
    AfterRun(event, sel, script_run(sel, SessionState(to_show), TransportResponses))

\* the options of the selectbox (line 224)
Options == {movies_df[i].title : i \in DOMAIN movies_df}

\* the options the modelled user picks: the titles of the first MaxPicks rows
\* and of the last row
Picks == {movies_df[i].title :
            i \in {j \in DOMAIN movies_df : j < MaxPicks \/ j = len_df(movies_df) - 1}}

\* The user picks another option of the selectbox, or clears it.
SelectMovie ==
    /\ appStatus = "running"
    /\ \E sel \in (Picks \cup {None}) \ {selected_movie} :
         Rerun("select", sel, movies_to_show)

\* The "More" button, offered by the last run: increment_movies, then the script.
MoreOffered == view = "results_more"

ClickMore ==
    /\ appStatus = "running"
    /\ MoreOffered
    /\ Rerun("more", selected_movie, increment_movies(movies_to_show))

\* The script runs again with the widgets as they are.
Refresh ==
    /\ appStatus = "running"
    /\ Rerun("rerun", selected_movie, movies_to_show)

Next == Startup \/ SelectMovie \/ ClickMore \/ Refresh

Spec == Init /\ [][Next]_vars

(***************************************************************************)
(* Claims about the session (checked under Spec)                           *)
(***************************************************************************)
IsPrefix(s, t) == Len(s) <= Len(t) /\ SubSeq(t, 1, Len(s)) = s

Running == appStatus = "running"
ShowingList == Running /\ selected_movie # None /\ movie_indices # <<>>
Revealed == num_to_display(movies_to_show, movie_indices)

\* C6: while the query movie stays the same, every step leaves the old
\* cached_names and cached_posters as prefixes of the new ones.
C6_MaterializedOnlyGrows ==
    [][(Running /\ current_movie' = current_movie) =>
          /\ IsPrefix(cached_names, cached_names')
          /\ IsPrefix(cached_posters, cached_posters')]_vars

\* C6 witness: a "More" request has extended lists that already held an
\* absent poster, which is still there.
C6_Witness ==
    /\ ShowingList /\ run.event = "more"
    /\ run.prev_shown > 0 /\ Len(cached_posters) > run.prev_shown
    /\ \E k \in 1..run.prev_shown : cached_posters[k] = None

\* C7: once the revealed count equals the number of ranked indices, "More"
\* is not offered, the page reports completion and every candidate is
\* materialized; with fewer than BatchSize candidates this is so from the
\* selection on.
C7_CompleteWhenAllRevealed ==
    (ShowingList /\ Revealed = Len(movie_indices)) =>
        /\ ~MoreOffered
        /\ view = "results_complete"
        /\ Len(cached_names) = Len(movie_indices)

\* C8: the stored counter movies_to_show never exceeds the number of ranked
\* indices.
C8_StoredCounterCapped ==
    ShowingList => movies_to_show <= Len(movie_indices)

\* C8 as amended: the displayed count min(movies_to_show, len) is at most the
\* number of ranked indices; the stored counter is BatchSize after a
\* selection of another movie and a multiple of BatchSize always, and it
\* stays below the number of ranked indices plus BatchSize.
C8_DisplayedCountCapped ==
    ShowingList =>
        /\ Revealed <= Len(movie_indices)
        /\ movies_to_show % BatchSize = 0
        /\ movies_to_show >= BatchSize
        /\ movies_to_show < Len(movie_indices) + BatchSize
        /\ run.changed => movies_to_show = BatchSize

\* C8 witness: after a "More" request the stored counter is above the number
\* of ranked indices.
C8_Witness ==
    /\ ShowingList /\ run.event = "more"
    /\ movies_to_show > Len(movie_indices)
    /\ Len(cached_names) = Len(movie_indices)

\* C9: a run that finds another movie selected leaves movies_to_show at
\* BatchSize, the ranking of the new movie in movie_indices, and in the lists
\* nothing but the first batch of that ranking, materialized from position 0;
\* a run that finds the current movie selected, or none, leaves
\* current_movie, movie_indices, movies_to_show and the lists unchanged.
C9_SelectionResets ==
    [][(Running /\ run'.event \in {"select", "rerun"}) =>
          IF selected_movie' # None /\ selected_movie' # current_movie
          THEN /\ current_movie' = selected_movie'
               /\ movies_to_show' = BatchSize
               /\ movie_indices' = get_recommended_movie_indices(
                                       movies_df, similarity, selected_movie').indices
               /\ run'.start_idx = 0
               /\ Len(cached_names') <= BatchSize
               /\ Len(cached_posters') = Len(cached_names')
               /\ \A k \in 1..Len(cached_names') :
                     cached_names'[k] = movies_df[movie_indices'[k]].title
          ELSE UNCHANGED <<current_movie, movie_indices, movies_to_show,
                           cached_names, cached_posters>>]_vars

\* C9 witness: another movie has been selected while more than one batch of
\* the previous movie was materialized, and the lists hold one batch.
C9_Witness ==
    /\ ShowingList /\ run.event = "select" /\ run.changed
    /\ run.prev_movie # None /\ run.prev_shown > BatchSize
    /\ Len(cached_names) = BatchSize

\* C10: the application runs only on a table with as many rows as the
\* similarity matrix has; any other pair of files stops it at start-up.
C10_LoadRejectsMismatch ==
    Running => len_df(movies_df) = Cardinality(DOMAIN similarity)

\* a run of the script that went through to the end of the results page
CompletedRender == ShowingList /\ view \in {"results_more", "results_complete"}

\* what a fetch for movie_id yields in this session: the URL of the poster
\* the catalog has for it, None when it has none or the request fails
FetchResult(movie_id) ==
    except_Exception(try_body(CatalogResponse(catalog, movie_id))).value

\* C11: after a completed render of a non-empty ranked list, cached_names and
\* cached_posters both have min(movies_to_show, len(movie_indices)) entries;
\* entry k is the title of row movie_indices[k] and the fetch result of that
\* row's movie id, None when no poster was found.
C11_ListsAlignedWithRanking ==
    CompletedRender =>
        /\ Len(cached_names) = Revealed
        /\ Len(cached_posters) = Revealed
        /\ \A k \in 1..Revealed :
              /\ movie_indices[k] \in DOMAIN movies_df
              /\ cached_names[k] = movies_df[movie_indices[k]].title
              /\ cached_posters[k] = FetchResult(movies_df[movie_indices[k]].movie_id)

\* C11 witness: two batches are materialized; among them are a poster that
\* was found, one the catalog does not have and one whose request failed.
C11_Witness ==
    /\ CompletedRender /\ Len(cached_posters) > BatchSize
    /\ \E k \in 1..Len(cached_posters) : cached_posters[k] # None
    /\ \E k, l \in 1..Len(cached_posters) :
          /\ cached_posters[k] = None /\ cached_posters[l] = None
          /\ CatalogResponse(catalog, movies_df[movie_indices[k]].movie_id).kind = "ok"
          /\ CatalogResponse(catalog, movies_df[movie_indices[l]].movie_id).kind = "timeout"

\* C16: every call of fetch_recommendations_batch a run of the script makes
\* starts at the number of entries materialized when it is made (none after
\* the selection of another movie) and asks for 1 to BatchSize entries, so a
\* run fetches at most BatchSize posters; the revealed count is never more
\* than BatchSize ahead of the materialized lists.
C16_BatchAtMostFive ==
    Running =>
        /\ run.fetches <= BatchSize
        /\ run.batch_size > 0 =>
              /\ run.batch_size \in 1..BatchSize
              /\ run.start_idx = IF run.changed THEN 0 ELSE run.prev_shown
        /\ ShowingList =>
              /\ Revealed >= Len(cached_names)
              /\ Revealed - Len(cached_names) <= BatchSize

\* C16 witness: a "More" request has materialized the last entries of the
\* ranking, fewer than BatchSize, after two full batches.
C16_Witness ==
    /\ ShowingList /\ run.event = "more"
    /\ run.start_idx = 2 * BatchSize
    /\ run.batch_size \in 1..(BatchSize - 1)
    /\ run.fetches = run.batch_size
    /\ Len(cached_names) = run.start_idx + run.batch_size

\* C18: whatever table and matrix load_data returned, every index of a
\* non-empty ranking is a row of the table, and no run of the script ends
\* in the IndexError of a row the table does not have.
C18_RankedIndicesAreRows ==
    ShowingList =>
        /\ \A k \in 1..Len(movie_indices) : movie_indices[k] \in DOMAIN movies_df
        /\ view # "exception"

(***************************************************************************)
(* Claims about the transport (checked under SpecRetry)                    *)
(***************************************************************************)
\* a call of fetch_poster that missed the caches has returned
MissDone == wire.done /\ wire.attempts > 0
LastOutcome == wire.history[Len(wire.history)]
ForcelistStatus(outcome) ==
    outcome.err = "none" /\ outcome.status \in status_forcelist
AsksRetryAfter(outcome) ==
    outcome.err = "none" /\ outcome.retry_after /\ outcome.status \in RetryAfterStatus
PosterFound(outcome) ==
    outcome.err = "none" /\ outcome.status = 200 /\ outcome.body \in PosterPaths

\* C12: a call of fetch_poster that misses the cache makes at most 3 GET
\* attempts; an attempt is followed by another only when it ended in a
\* response of status 429, 500, 502, 503 or 504; a response of any other
\* error status ends the call after one attempt; a call whose attempts are
\* exhausted returns None.
C12_AtMostThreeAttempts ==
    MissDone =>
        /\ wire.attempts <= 3
        /\ \A k \in 1..(wire.attempts - 1) : ForcelistStatus(wire.history[k])
        /\ (LastOutcome.err = "none" /\ LastOutcome.status >= 400
              /\ ~ForcelistStatus(LastOutcome)) => wire.attempts = 1
        /\ ForcelistStatus(LastOutcome) => wire.result = None

\* C12 as amended: the call makes at most RetryTotal + 1 GET attempts, the
\* first and up to RetryTotal retries; an attempt is followed by another
\* only when it ended in a response of a forcelist status, in a response
\* that carries Retry-After with a status of RetryAfterStatus, or in a
\* failure to connect or to read, and then always while retries are left; a
\* response of any other kind ends the call at once; the call never raises
\* and returns None unless its last attempt found a poster.
C12_AtMostTotalRetries ==
    MissDone =>
        /\ wire.attempts <= RetryTotal + 1
        /\ \A k \in 1..(wire.attempts - 1) :
              \/ ForcelistStatus(wire.history[k])
              \/ AsksRetryAfter(wire.history[k])
              \/ wire.history[k].err # "none"
        /\ (ForcelistStatus(LastOutcome) \/ AsksRetryAfter(LastOutcome)
              \/ LastOutcome.err # "none")
              => wire.attempts = RetryTotal + 1
        /\ ~wire.raised
        /\ wire.result = IF PosterFound(LastOutcome)
                         THEN PosterUrl(LastOutcome.body) ELSE None

\* C12 witness: a call has returned None after four attempts, the first of
\* which failed to connect and the others were answered 503, 429 and 503.
C12_Witness ==
    /\ MissDone /\ wire.attempts = RetryTotal + 1 /\ wire.result = None
    /\ wire.history[1].err = "connect_error"
    /\ wire.history[2].status = 503
    /\ wire.history[3].status = 429
    /\ wire.history[4].status = 503

(***************************************************************************)
(* fetch_recommendations_batch on its own: the ranking of the first title  *)
(* of a table of up to MaxSessionRows rows, from any start_idx up to       *)
(* MaxStart and with any batch_size up to MaxBatch.                        *)
(***************************************************************************)
BatchFiles ==
    UNION {{[movies     |-> File("ok", PickledTable(ContiguousLabels(n),
                                        [k \in 1..n |-> TitleNames[k]])),
             similarity |-> File("ok", RotatedMatrix(N,
                                        [j \in 0..(N - 1) |-> IF j = 0 THEN 2 ELSE j % 2])),
             poster_cache_json |-> File("missing", None)] :
              N \in SessionDims(n)} : n \in 1..MaxSessionRows}

InitBatch ==
    /\ files \in BatchFiles
    /\ movies_df = load_data(files).movies_df
    /\ similarity = load_data(files).similarity
    /\ appStatus = "running"
    /\ SessionInit
    /\ PosterInit
    /\ catalog = "mixed"
    /\ rk = NoRank
    /\ batch = NoBatch

\* the call has ended as b
AfterBatch(start_idx, batch_size, indices, b) ==
    /\ batch' = [called |-> TRUE, start_idx |-> start_idx, batch_size |-> batch_size,
                 len |-> Len(indices), fetches |-> b.fetches, pauses |-> b.pauses,
                 returned |-> Len(b.names), raised |-> b.raised]
    /\ poster_cache' = b.poster_cache
    /\ st_cache' = b.st_cache

BatchOf(indices, start_idx, batch_size) ==
    AfterBatch(start_idx, batch_size, indices,
               fetch_recommendations_batch(movies_df, indices, start_idx, batch_size,
                   TransportResponses, poster_cache, st_cache, now))

BatchCall ==
    /\ appStatus = "running"
    /\ \E start_idx \in 0..MaxStart, batch_size \in 1..MaxBatch :
         BatchOf(get_recommended_movie_indices(movies_df, similarity,
                                               TitleNames[1]).indices,
                 start_idx, batch_size)
    /\ UNCHANGED <<dataVars, sessionVars, now, call, netLog, wire, rk>>

NextBatch == BatchCall

SpecBatch == InitBatch /\ [][NextBatch]_vars

(***************************************************************************)
(* Claims about the batch (checked under SpecBatch)                        *)
(***************************************************************************)
\* the number of entries of the batch the last call was made over
BatchEntries ==
    IF Min(batch.start_idx + batch.batch_size, batch.len) > batch.start_idx
    THEN Min(batch.start_idx + batch.batch_size, batch.len) - batch.start_idx
    ELSE 0

\* C13: in a call over a batch of m entries a pause follows the k-th fetch
\* exactly when k is a multiple of 5 and k < m: once each, never after the
\* last fetch of the batch and at no other position; a call that returns
\* has made m fetches.
C13_PauseAfterEveryFifth ==
    batch.called =>
        /\ {batch.pauses[j] : j \in 1..Len(batch.pauses)} =
              {k \in 1..batch.fetches : k % 5 = 0 /\ k < BatchEntries}
        /\ \A j \in 1..(Len(batch.pauses) - 1) : batch.pauses[j] < batch.pauses[j + 1]
        /\ batch.raised = None => batch.fetches = BatchEntries

\* C13 witness: a call over ten entries has returned after one pause, the
\* one that followed its fifth fetch.
C13_Witness ==
    /\ batch.called /\ batch.raised = None
    /\ BatchEntries = 10 /\ batch.returned = 10
    /\ batch.pauses = <<5>>

(***************************************************************************)
(* The script run with any title as the value of the selectbox, a title    *)
(* that no row of the table carries included, on tables of up to           *)
(* MaxRankRows rows titled "A"/"B" and the matrices of the session.        *)
(***************************************************************************)
LookupFiles ==
    UNION {UNION {
        {[movies     |-> File("ok", PickledTable(ContiguousLabels(n), titles)),
          similarity |-> File("ok", RotatedMatrix(N, d)),
          poster_cache_json |-> File("missing", None)] :
            titles \in [1..n -> RankTitles], d \in SessionRows(N)} :
        N \in SessionDims(n)} : n \in 1..MaxRankRows}

InitLookup ==
    /\ files \in LookupFiles
    /\ movies_df = load_data(files).movies_df
    /\ similarity = load_data(files).similarity
    /\ appStatus = "running"
    /\ SessionInit
    /\ PosterInit
    /\ catalog \in Catalogs
    /\ rk = NoRank
    /\ batch = NoBatch

SelectTitle ==
    /\ appStatus = "running"
    /\ \E sel \in (QueryTitles \cup {None}) \ {selected_movie} :
         Rerun("select", sel, movies_to_show)

NextLookup == SelectTitle \/ Refresh

SpecLookup == InitLookup /\ [][NextLookup]_vars

(***************************************************************************)
(* Claims about the lookup (checked under SpecLookup)                      *)
(***************************************************************************)
\* C14: for a selected title that no row of the table equals the ranking
\* ends in the not-found error with an empty list; the session then holds
\* an empty movie_indices and empty materialized lists, the run has fetched
\* no poster, and "More" is not offered.
C14_NotFoundLeavesNothing ==
    (Running /\ selected_movie # None /\ MatchingRows(movies_df, selected_movie) = {}) =>
        /\ get_recommended_movie_indices(movies_df, similarity, selected_movie)
              = [indices |-> <<>>, error |-> "not_found"]
        /\ current_movie = selected_movie
        /\ movie_indices = <<>>
        /\ cached_names = <<>> /\ cached_posters = <<>>
        /\ run.fetches = 0
        /\ view = "no_results"
        /\ ~MoreOffered

\* C14 witness: a title of no row has been selected while the lists of
\* another movie were materialized.
C14_Witness ==
    /\ Running /\ selected_movie = "Z" /\ run.event = "select"
    /\ run.prev_movie \in RankTitles /\ run.prev_shown > 0
    /\ cached_names = <<>> /\ view = "no_results"

(***************************************************************************)
(* Claims about duplicate titles (checked under SpecRank)                  *)
(***************************************************************************)
\* C15: when several rows carry the ranked title, the ranking is that of the
\* lowest of them: it is ordered by the scores of that row's similarity
\* row, and every other row of the same title is in the result.
C15_DuplicatesResolveToFirst ==
    (Ranked /\ len_df(movies_df) = Cardinality(DOMAIN similarity)
            /\ Cardinality(MatchingRows(movies_df, rk.movie)) > 1) =>
        /\ \A k \in 1..(Len(rk.indices) - 1) :
              similarity[SetMin(MatchingRows(movies_df, rk.movie))][rk.indices[k]]
                >= similarity[SetMin(MatchingRows(movies_df, rk.movie))][rk.indices[k + 1]]
        /\ \A j \in MatchingRows(movies_df, rk.movie) :
              j # SetMin(MatchingRows(movies_df, rk.movie))
                => Occurrences(rk.indices, j) = 1

(***************************************************************************)
(* The session of a user who selects one movie and from then on asks for   *)
(* "More" whenever the button is there.                                    *)
(***************************************************************************)
\* The first selection of the session.
SelectFirst ==
    /\ appStatus = "running"
    /\ selected_movie = None /\ current_movie = None
    /\ \E sel \in Picks : Rerun("select", sel, movies_to_show)

NextMore == Startup \/ SelectFirst \/ ClickMore \/ Refresh

\* The button stays on the page until it is clicked: a user who keeps
\* asking for more clicks it.
SpecMore == Init /\ [][NextMore]_vars /\ WF_vars(ClickMore)

(***************************************************************************)
(* Claims about the pages (checked under SpecMore)                         *)
(***************************************************************************)
CeilDiv(a, b) == (a + b - 1) \div b

Complete ==
    /\ ShowingList
    /\ view = "results_complete"
    /\ Len(cached_names) = Len(movie_indices)

\* C17: with a movie of T > 0 ranked candidates selected, the session
\* reaches the complete state, all T candidates materialized; it is there
\* after exactly ceil(T / 5) - 1 accepted "More" requests, and it stays
\* complete from then on.
C17_MoreReachesComplete ==
    /\ ShowingList ~> Complete
    /\ [](Complete => run.mores = CeilDiv(Len(movie_indices), BatchSize) - 1)
    /\ [][Complete => Complete']_vars

====
